---------------------------- MODULE Spec2Model ----------------------------
(***************************************************************************)
(* Selection store and preview cache of the Contact Sheet Selector node.   *)
(*   contact_sheet_selector/state.py : the process-wide state table, its   *)
(*                                     lock and the store operations       *)
(*   contact_sheet_selector/node.py  : execute, fingerprint_inputs         *)
(*                                                                         *)
(* Python lists are sequences, Optional[x] is None (the empty sequence) or *)
(* Some(x) (the one-element sequence holding x).                           *)
(***************************************************************************)
EXTENDS Integers, Sequences, FiniteSets, TLC

\* ------------------------------------------------------------------------
\* Bounds
\* ------------------------------------------------------------------------
MaxBatch == 2      \* largest batch size passed to the store
MaxIdx == 2        \* largest index the UI submits (the smallest is -1)
MaxLen == 2        \* longest raw selection the UI submits
ShortLen == 1      \* the same, where nodes or threads are driven side by side

StoreNodes == {"a"}
PairNodes == {"a", "b"}
Columns == {-1, 0, 2}
BatchSizes == 0..MaxBatch
Idx == -1..MaxIdx
Pixels == {0, 1}   \* a frame is one pixel: a batch has shape (N,)
BadPixel == 2      \* the pixel of a frame _encode_tensor_to_data_url raises on

RECURSIVE SeqsUpTo(_, _)
SeqsUpTo(S, n) ==
    IF n = 0 THEN {<<>>}
    ELSE LET shorter == SeqsUpTo(S, n - 1)
         IN  shorter \cup {Append(s, x) : s \in {t \in shorter : Len(t) = n - 1}, x \in S}

RawSelections == SeqsUpTo(Idx, MaxLen)
ShortSelections == SeqsUpTo(Idx, ShortLen)
\* the selections queued next to running threads: none or one index
LockSelections == SeqsUpTo(Idx, 1)
Batches == SeqsUpTo(Pixels, MaxBatch)

\* ------------------------------------------------------------------------
\* Python values
\* ------------------------------------------------------------------------
None == <<>>
Some(x) == <<x>>

Elems(list) == {list[i] : i \in DOMAIN list}

\* sorted(S) for a set of integers
RECURSIVE sorted(_)
sorted(S) ==
    IF S = {} THEN <<>>
    ELSE LET m == CHOOSE x \in S : \A y \in S : x <= y
         IN  <<m>> \o sorted(S \ {m})

\* mutant: the range starts at 1
range_from_one(n) == [i \in 1..n |-> i]

\* list(range(n))
range(n) == [i \in 1..n |-> i - 1]

\* Python's "x or y" on lists
OrElse(x, y) == IF x # <<>> THEN x ELSE y

\* NodeSelectionState()
NodeSelectionState ==
    [active |-> <<>>, pending |-> None, last_batch_size |-> 0,
     preview_token |-> None, preview_data |-> <<>>]

\* ------------------------------------------------------------------------
\* State
\* ------------------------------------------------------------------------
VARIABLES
    _selection_state,   \* node id -> None | Some(NodeSelectionState)
    _state_lock,        \* None | Some(the thread that holds the lock)
    queued,             \* history: node id -> None | Some(set of the indices of the raw
                        \* selection most recently passed to queue_pending_selection and
                        \* not yet met by a resolution)
    last,               \* history: the operation that ran last (see Call)
    threads,            \* thread id -> where the thread is in its call, and its locals
    executed            \* history: node id -> None | Some(batch and stored previews of the
                        \* execute that completed last on the node)

vars == <<_selection_state, _state_lock, queued, last, threads, executed>>

\* The record of a call: the operation, its node, its argument (for
\* queue_pending_selection, the set of the submitted indices), its return
\* value, what it met (for a resolution: queued[node] as it was), and prev,
\* the return value and "met" of the call before it when that was the same
\* operation on the same node with the same argument (None otherwise), and
\* fresh, whether the table had no entry for the node when the call was made.
\* History is not kept in a behaviour that starts with it switched off.
NoCall ==
    [op |-> "init", node |-> "", arg |-> None, ret |-> None, met |-> None, prev |-> None,
     fresh |-> FALSE]
NoHistory == [NoCall EXCEPT !.op = "off"]
Recording == last.op # "off"

Call(op, node, arg, ret, met) ==
    IF ~Recording THEN last
    ELSE [op |-> op, node |-> node, arg |-> arg, ret |-> ret, met |-> met,
          prev |-> IF last.op = op /\ last.node = node /\ last.arg = arg
                   THEN Some([ret |-> last.ret, met |-> last.met])
                   ELSE None,
          fresh |-> node \in DOMAIN _selection_state /\ _selection_state[node] = None]

\* a store operation called on its own and taken as one step: the lock is
\* taken and released within it
NoThread == UNCHANGED <<threads, executed, _state_lock>>

\* mutant: the lock is taken whoever holds it
can_acquire_held(lock) == TRUE

\* Lock.acquire
can_acquire(lock) == lock = None

\* _selection_state.setdefault(node_id, NodeSelectionState())
setdefault(table, node_id) ==
    IF table[node_id] = None THEN NodeSelectionState ELSE table[node_id][1]

\* ------------------------------------------------------------------------
\* state.py
\* ------------------------------------------------------------------------
\* mutant: negative indices are dropped but indices past the batch are kept
_sanitize_selection_unbounded(selection, batch_size) ==
    sorted({idx \in Elems(selection) : 0 <= idx})

\* mutant: an index outside [0, batch_size) is clamped to the nearest valid one
_sanitize_selection_clamped(selection, batch_size) ==
    IF batch_size <= 0 THEN <<>>
    ELSE sorted({IF idx < 0 THEN 0 ELSE IF idx >= batch_size THEN batch_size - 1 ELSE idx :
                    idx \in Elems(selection)})

_sanitize_selection(selection, batch_size) ==
    sorted({idx \in Elems(selection) : 0 <= idx /\ idx < batch_size})

\* get_state: the state the call leaves in the table (and returns)
get_state_result(state, batch_size) ==
    LET seeded == IF state.active = <<>> THEN range(batch_size) ELSE state.active
    IN  [state EXCEPT
            !.active = OrElse(_sanitize_selection(seeded, batch_size), range(batch_size)),
            !.last_batch_size = batch_size]

get_state(node_id, batch_size) ==
    LET state == get_state_result(setdefault(_selection_state, node_id), batch_size)
    IN  /\ _selection_state' = [_selection_state EXCEPT ![node_id] = Some(state)]
        /\ last' = Call("get_state", node_id, batch_size, state, None)
        /\ UNCHANGED queued
        /\ NoThread

\* mutant: a pending selection that sanitizes to empty is used as it is
resolve_pending_keeps_stale(original_pending, batch_size) ==
    IF original_pending # None
    THEN Some(_sanitize_selection(original_pending[1], batch_size))
    ELSE None

\* mutant: only a non-empty pending selection can be stale
resolve_pending_honours_empty(original_pending, batch_size) ==
    LET pending == IF original_pending # None
                   THEN Some(_sanitize_selection(original_pending[1], batch_size))
                   ELSE None
    IN  IF original_pending # None /\ original_pending[1] # <<>> /\ pending = Some(<<>>)
        THEN None ELSE pending

\* lines 77-90: the pending selection as the resolution uses it
resolve_pending(original_pending, batch_size) ==
    LET pending == IF original_pending # None
                   THEN Some(_sanitize_selection(original_pending[1], batch_size))
                   ELSE None
    IN  IF original_pending # None /\ pending = Some(<<>>) THEN None ELSE pending

\* lines 72-92: selection_for_output
selection_for_output(state, batch_size) ==
    LET seeded == IF state.active = <<>> THEN range(batch_size) ELSE state.active
        active == OrElse(_sanitize_selection(seeded, batch_size), range(batch_size))
        pending == resolve_pending(state.pending, batch_size)
    IN  IF pending # None THEN pending[1] ELSE active

\* mutant: the pending selection is left in place
resolve_commit_keeps_pending(state, output, batch_size) ==
    [state EXCEPT !.active = output, !.last_batch_size = batch_size]

\* mutant: the output is not installed as the next baseline
resolve_commit_keeps_baseline(state, output, batch_size) ==
    [state EXCEPT !.pending = None, !.last_batch_size = batch_size]

\* lines 93-95: the commit
resolve_commit(state, output, batch_size) ==
    [state EXCEPT !.active = output, !.pending = None, !.last_batch_size = batch_size]

resolve_selection_for_execution(node_id, batch_size) ==
    LET state == setdefault(_selection_state, node_id)
        output == selection_for_output(state, batch_size)
        committed == resolve_commit(state, output, batch_size)
    IN  /\ _selection_state' = [_selection_state EXCEPT ![node_id] = Some(committed)]
        /\ last' = Call("resolve", node_id, batch_size, <<output, committed.active>>,
                        queued[node_id])
        /\ queued' = [queued EXCEPT ![node_id] = None]
        /\ NoThread

\* mutant: the selection is sanitized against the last known batch size
effective_batch_size_last_known(state, selection) == state.last_batch_size

\* lines 117-121: the batch size queue_pending_selection sanitizes against
effective_batch_size(state, selection) ==
    LET last_known == state.last_batch_size
        highest_index == IF selection = <<>> THEN -1
                         ELSE CHOOSE m \in Elems(selection) : \A v \in Elems(selection) : v <= m
        inferred_size == IF highest_index >= 0 THEN highest_index + 1 ELSE 0
    IN  IF last_known >= inferred_size THEN last_known ELSE inferred_size

\* mutant: a selection that sanitizes to empty is stored as the empty list
queue_pending_value_keeps_empty(selection, sanitized) == Some(sanitized)

\* lines 123-143: the pending queue_pending_selection stores
queue_pending_value(selection, sanitized) ==
    IF selection # <<>> /\ sanitized = <<>> THEN None
    ELSE IF selection = <<>> THEN Some(<<>>)
    ELSE Some(sanitized)

queue_pending_selection(node_id, selection) ==
    LET state == setdefault(_selection_state, node_id)
        sanitized == _sanitize_selection(selection, effective_batch_size(state, selection))
        stored == [state EXCEPT !.pending = queue_pending_value(selection, sanitized)]
    IN  /\ _selection_state' = [_selection_state EXCEPT ![node_id] = Some(stored)]
        /\ last' = Call("queue_pending", node_id, Elems(selection), sanitized, None)
        /\ queued' = IF Recording THEN [queued EXCEPT ![node_id] = Some(Elems(selection))]
                      ELSE queued
        /\ NoThread

\* mutant: the lookup inserts a default entry for a node that has none
table_after_get_inserts(table, node_id) ==
    [table EXCEPT ![node_id] = Some(setdefault(table, node_id))]

\* _selection_state.get(node_id): the table after the lookup
table_after_get(table, node_id) == table

\* the snapshot inspect_state builds
inspect_snapshot(table, node_id) ==
    IF table[node_id] = None THEN None
    ELSE LET state == table[node_id][1]
         IN  Some([active |-> state.active,
                   pending |-> state.pending,
                   last_batch_size |-> state.last_batch_size,
                   preview_token |-> state.preview_token,
                   preview_data |-> state.preview_data])

inspect_state(node_id) ==
    /\ last' = Call("inspect", node_id, None, inspect_snapshot(_selection_state, node_id), None)
    /\ _selection_state' = table_after_get(_selection_state, node_id)
    /\ UNCHANGED queued
    /\ NoThread

reset_state ==
    /\ _selection_state' = [n \in DOMAIN _selection_state |-> None]
    /\ last' = Call("reset", "", None, None, None)
    /\ queued' = [n \in DOMAIN queued |-> None]
    /\ NoThread

\* Python strings and tuples: a str and the tuple of its characters hold the
\* same characters but are different values that never compare equal.
Str(chars) == [type |-> "str", chars |-> chars]
tuple(x) == [type |-> "tuple", chars |-> x.chars]

\* "tuple(state.preview_token) if state.preview_token else None"
token_copy(preview_token) ==
    IF preview_token # None THEN Some(tuple(preview_token[1])) ELSE None

get_preview_cache_result(table, node_id) ==
    IF table[node_id] = None \/ table[node_id][1].preview_data = <<>>
    THEN <<None, None>>
    ELSE <<token_copy(table[node_id][1].preview_token), Some(table[node_id][1].preview_data)>>

get_preview_cache(node_id) ==
    /\ last' = Call("get_preview_cache", node_id, None,
                    get_preview_cache_result(_selection_state, node_id), None)
    /\ _selection_state' = table_after_get(_selection_state, node_id)
    /\ UNCHANGED queued
    /\ NoThread

update_preview_cache_result(state, token, data) ==
    [state EXCEPT !.preview_token = Some(tuple(token)), !.preview_data = data]

update_preview_cache(node_id, token, data) ==
    LET state == update_preview_cache_result(setdefault(_selection_state, node_id), token, data)
    IN  /\ _selection_state' = [_selection_state EXCEPT ![node_id] = Some(state)]
        /\ last' = Call("update_preview_cache", node_id, <<token, data>>, None, None)
        /\ UNCHANGED queued
        /\ NoThread

\* ------------------------------------------------------------------------
\* node.py
\* ------------------------------------------------------------------------
SampleLimit == 4096

\* the f-string of the shape, the sample size and the SHA-1 of the sampled
\* values; the digest is kept as the sampled values themselves
_compute_preview_signature(images) ==
    LET shape == <<Len(images)>>
        numel == Len(images)
        sample_size == IF numel <= SampleLimit THEN numel ELSE SampleLimit
    IN  IF sample_size = 0 THEN Str(<<shape, "empty">>)
        ELSE Str(<<shape, sample_size, SubSeq(images, 1, sample_size)>>)

_encode_tensor_to_data_url(image_tensor) == <<"data:image/png;base64", image_tensor>>

\* [_encode_tensor_to_data_url(images[idx]) for idx in range(batch_size)]
encode_previews(images) ==
    [idx \in 1..Len(images) |-> _encode_tensor_to_data_url(images[idx])]

\* max(0, _ensure_int(columns))
columns_value(columns) == IF columns >= 0 THEN columns ELSE 0

\* mutant: the fingerprint is taken from the active selection alone
fingerprint_ignores_pending(snapshot, columns) ==
    IF snapshot = None THEN None
    ELSE Some(snapshot[1].active \o <<snapshot[1].last_batch_size, columns_value(columns)>>)

\* mutant: the fingerprint holds the length of the selection, not its indices
fingerprint_of_length(snapshot, columns) ==
    IF snapshot = None THEN None
    ELSE LET selection == IF snapshot[1].pending # None THEN snapshot[1].pending[1]
                          ELSE snapshot[1].active
         IN  Some(<<Len(selection), snapshot[1].last_batch_size, columns_value(columns)>>)

\* mutant: the fingerprint of a node with a pending selection is marked
fingerprint_tags_pending(snapshot, columns) ==
    IF snapshot = None THEN None
    ELSE LET selection == IF snapshot[1].pending # None THEN snapshot[1].pending[1] \o <<-1>>
                          ELSE snapshot[1].active
         IN  Some(selection \o <<snapshot[1].last_batch_size, columns_value(columns)>>)

\* lines 182-198: the fingerprint of a snapshot; tuples are sequences and +
\* is concatenation
fingerprint(snapshot, columns) ==
    IF snapshot = None THEN None
    ELSE LET selection == IF snapshot[1].pending # None THEN snapshot[1].pending[1]
                          ELSE snapshot[1].active
         IN  Some(selection \o <<snapshot[1].last_batch_size, columns_value(columns)>>)

fingerprint_inputs(node_id, columns) ==
    /\ last' = Call("fingerprint_inputs", node_id, columns,
                    fingerprint(inspect_snapshot(_selection_state, node_id), columns), None)
    /\ _selection_state' = table_after_get(_selection_state, node_id)
    /\ UNCHANGED queued
    /\ NoThread

\* mutant: the first len(selection) frames are returned
_gather_selected_images_leading(images, selection) ==
    [i \in 1..Len(selection) |-> images[i]]

\* _gather_selected_images: index_select along the batch axis
_gather_selected_images(images, selection) ==
    [i \in 1..Len(selection) |-> images[selection[i] + 1]]

\* line 149: "cached_signature == preview_signature and cached_data"
can_reuse(cached, preview_signature) ==
    /\ cached[1] # None
    /\ cached[1][1] = preview_signature
    /\ cached[2] # None
    /\ cached[2][1] # <<>>

\* A thread that has not called execute yet. In a call and after it: the node
\* and batch, the resolved selections, the previews and the columns of the UI
\* payload, and as history the number of calls of _encode_tensor_to_data_url,
\* whether the execute that completed last on the node had the same batch and
\* stored a non-empty preview list (repeat), whether no other execute of
\* the node overlapped this one (solo), the pending selection the
\* resolution found (met), and the preview token and data the node had when
\* the call started (cache_before).
IdleThread ==
    [pc |-> "idle", node_id |-> "", images |-> <<>>, output |-> <<>>, next |-> <<>>,
     preview_data |-> <<>>, columns |-> 0, encoded |-> 0, repeat |-> FALSE, solo |-> TRUE,
     met |-> None, cache_before |-> <<None, <<>>>>]

Returned(u) == threads[u].pc \in {"idle", "done"}
InExecute(u, node_id) ==
    "images" \in DOMAIN threads[u] /\ ~Returned(u) /\ threads[u].node_id = node_id

\* lines 161-173: the thread returns; stored is the preview list it put in the
\* cache, if any
execute_return(t, preview_data, encoded, stored, columns) ==
    /\ threads' = [threads EXCEPT ![t].pc = "done",
                                  ![t].preview_data = preview_data,
                                  ![t].columns = columns_value(columns),
                                  ![t].encoded = encoded]
    /\ executed' = [executed EXCEPT
          ![threads[t].node_id] = Some([images |-> threads[t].images, stored |-> stored])]

\* the node output and the UI payload of a thread that has returned
selected_images(t) == _gather_selected_images(threads[t].images, threads[t].output)
ui_payload(t) ==
    [images |-> threads[t].preview_data,
     selected_active |-> threads[t].output,
     selected_next |-> threads[t].next,
     columns |-> threads[t].columns,
     batch_size |-> Len(threads[t].images)]

\* lines 113-144: the call starts and resolves the selection
execute_resolve(t, node_id, images) ==
    /\ Returned(t)
    /\ can_acquire(_state_lock)
    /\ LET state == setdefault(_selection_state, node_id)
           batch_size == Len(images)
           output == selection_for_output(state, batch_size)
           committed == resolve_commit(state, output, batch_size)
           overlap == \E u \in DOMAIN threads \ {t} : InExecute(u, node_id)
           repeat == /\ executed[node_id] # None
                     /\ executed[node_id][1].images = images
                     /\ executed[node_id][1].stored # <<>>
       IN  /\ _selection_state' = [_selection_state EXCEPT ![node_id] = Some(committed)]
           /\ threads' = [u \in DOMAIN threads |->
                 IF u = t
                 THEN [IdleThread EXCEPT !.pc = "resolved", !.node_id = node_id,
                          !.images = images, !.output = output,
                          !.next = committed.active,
                          !.repeat = repeat, !.solo = ~overlap,
                          !.met = state.pending,
                          !.cache_before = <<state.preview_token, state.preview_data>>]
                 ELSE IF InExecute(u, node_id) THEN [threads[u] EXCEPT !.solo = FALSE]
                 ELSE threads[u]]
    /\ queued' = [queued EXCEPT ![node_id] = None]
    /\ UNCHANGED <<last, executed>>
    /\ UNCHANGED _state_lock

\* lines 146-152: the signature and the cache lookup; on a hit the cached
\* previews are reused and the thread returns. The columns input is only read
\* for the payload.
execute_lookup(t, columns) ==
    /\ threads[t].pc = "resolved"
    /\ can_acquire(_state_lock)
    /\ LET cached == get_preview_cache_result(_selection_state, threads[t].node_id)
       IN  IF can_reuse(cached, _compute_preview_signature(threads[t].images))
           THEN execute_return(t, cached[2][1], threads[t].encoded, <<>>, columns)
           ELSE /\ threads' = [threads EXCEPT ![t].pc = "encode"]
                /\ UNCHANGED executed
    /\ UNCHANGED <<_selection_state, queued, last>>
    /\ UNCHANGED _state_lock

\* a frame _encode_tensor_to_data_url raises on (the wrong rank, a channel
\* layout PIL refuses)
Encodable(image_tensor) == image_tensor # BadPixel
FirstFailure(images) ==
    CHOOSE k \in 1..Len(images) :
        ~Encodable(images[k]) /\ \A j \in 1..(k - 1) : Encodable(images[j])

\* lines 153-154: every frame is encoded, outside the lock
execute_encode(t) ==
    /\ threads[t].pc = "encode"
    /\ \A k \in 1..Len(threads[t].images) : Encodable(threads[t].images[k])
    /\ threads' = [threads EXCEPT ![t].pc = "store",
                                  ![t].encoded = @ + Len(threads[t].images)]
    /\ UNCHANGED <<_selection_state, queued, last, executed>>
    /\ UNCHANGED _state_lock

\* mutant: a placeholder is reported for every frame
previews_after_failure_placeholders(images) ==
    [idx \in 1..Len(images) |-> <<"data:image/png;base64", "">>]

\* line 157: "preview_data = []"
previews_after_failure(images) == <<>>

\* lines 155-157: the encoding of a frame raises; the previews are dropped, the
\* cache is left alone and the thread returns
execute_encode_fails(t, columns) ==
    /\ threads[t].pc = "encode"
    /\ \E k \in 1..Len(threads[t].images) : ~Encodable(threads[t].images[k])
    /\ execute_return(t, previews_after_failure(threads[t].images),
                      threads[t].encoded + FirstFailure(threads[t].images),
                      <<>>, columns)
    /\ UNCHANGED <<_selection_state, queued, last>>
    /\ UNCHANGED _state_lock

\* lines 158-159: the previews are stored and the thread returns
execute_store(t, columns) ==
    /\ threads[t].pc = "store"
    /\ LET self == threads[t]
           preview_data == encode_previews(self.images)
           state == update_preview_cache_result(
                        setdefault(_selection_state, self.node_id),
                        _compute_preview_signature(self.images), preview_data)
       IN  /\ _selection_state' = [_selection_state EXCEPT ![self.node_id] = Some(state)]
           /\ execute_return(t, preview_data, self.encoded, preview_data, columns)
    /\ UNCHANGED <<queued, last>>
    /\ UNCHANGED _state_lock

\* get_preview_cache called at line 147, statement by statement.
\* line 171: "with _state_lock"
lookup_acquire(t) ==
    /\ threads[t].pc = "resolved"
    /\ can_acquire(_state_lock)
    /\ _state_lock' = Some(t)
    /\ threads' = [threads EXCEPT ![t].pc = "line 172"]
    /\ UNCHANGED <<_selection_state, queued, last, executed>>

\* mutant: the lock stays with the thread after the read
lock_after_read_kept(t) == Some(t)

\* the lock when the "with" block of get_preview_cache is left
lock_after_read(t) == None

\* lines 172-178 and 149-152: the token and the data are read, the lock is
\* released, and the previews are reused or are to be encoded
lookup_read(t, columns) ==
    /\ threads[t].pc = "line 172"
    /\ LET cached == get_preview_cache_result(_selection_state, threads[t].node_id)
       IN  IF can_reuse(cached, _compute_preview_signature(threads[t].images))
           THEN execute_return(t, cached[2][1], threads[t].encoded, <<>>, columns)
           ELSE /\ threads' = [threads EXCEPT ![t].pc = "encode"]
                /\ UNCHANGED executed
    /\ _state_lock' = lock_after_read(t)
    /\ UNCHANGED <<_selection_state, queued, last>>

\* update_preview_cache called at line 159, statement by statement.
\* line 183: "with _state_lock"
cache_acquire(t) ==
    /\ threads[t].pc = "store"
    /\ can_acquire(_state_lock)
    /\ _state_lock' = Some(t)
    /\ threads' = [threads EXCEPT ![t].pc = "line 184"]
    /\ UNCHANGED <<_selection_state, queued, last, executed>>

\* lines 184-185: the entry is fetched or created and state.preview_token is
\* written
cache_write_token(t) ==
    /\ threads[t].pc = "line 184"
    /\ LET state == setdefault(_selection_state, threads[t].node_id)
       IN  _selection_state' = [_selection_state EXCEPT ![threads[t].node_id] =
               Some([state EXCEPT !.preview_token =
                        Some(tuple(_compute_preview_signature(threads[t].images)))])]
    /\ threads' = [threads EXCEPT ![t].pc = "line 186"]
    /\ UNCHANGED <<_state_lock, queued, last, executed>>

\* line 186: state.preview_data is written and the lock is released; the thread
\* goes on to return at lines 161-173
cache_write_data(t, columns) ==
    /\ threads[t].pc = "line 186"
    /\ LET state == _selection_state[threads[t].node_id][1]
           preview_data == encode_previews(threads[t].images)
       IN  /\ _selection_state' = [_selection_state EXCEPT ![threads[t].node_id] =
                 Some([state EXCEPT !.preview_data = preview_data])]
           /\ execute_return(t, preview_data, threads[t].encoded, preview_data, columns)
    /\ _state_lock' = None
    /\ UNCHANGED <<queued, last>>

\* JSON values as json.loads returns them. A float carries its integer part
\* (what int() makes of it); 1e999 loads as the float inf.
JsonInt(v) == [type |-> "int", int |-> v, str |-> ""]
JsonFloat(v) == [type |-> "float", int |-> v, str |-> ""]
JsonInf == [type |-> "inf", int |-> 0, str |-> ""]
JsonNull == [type |-> "null", int |-> 0, str |-> ""]
\* a string, and the integer it spells if it spells one
JsonStr(s) == [type |-> "str", int |-> 0, str |-> s]
JsonDigits(v) == [type |-> "digits", int |-> v, str |-> ""]
JsonList(items) == [type |-> "list", int |-> 0, str |-> "", items |-> items]

\* Python truthiness of a JSON value
truthy(value) ==
    CASE value.type \in {"int", "float"} -> value.int # 0
      [] value.type = "str" -> value.str # ""
      [] value.type = "list" -> value.items # <<>>
      [] value.type = "null" -> FALSE
      [] OTHER -> TRUE

\* int(idx): the integer, or the exception raised
int(idx) ==
    CASE idx.type \in {"int", "float", "digits"} -> [raises |-> "", int |-> idx.int]
      [] idx.type = "str" -> [raises |-> "ValueError", int |-> 0]
      [] idx.type = "inf" -> [raises |-> "OverflowError", int |-> 0]
      [] OTHER -> [raises |-> "TypeError", int |-> 0]

\* the body of a request: text that is not JSON, a JSON value that is not an
\* object, or an object with its "node_id" and "selection" members (None when
\* the member is missing)
Malformed == [kind |-> "malformed", node_id |-> None, selection |-> None]
NotObject == [kind |-> "value", node_id |-> None, selection |-> None]
Object(node_id, selection) == [kind |-> "object", node_id |-> node_id, selection |-> selection]

\* web.json_response(payload, status=...); an exception that leaves the
\* handler is answered by the server with status 500
json_response(status, error, selection) ==
    [status |-> status, error |-> error, selection |-> selection]
unhandled(exception) == json_response(500, exception, None)

\* line 226: [int(idx) for idx in selection_raw] raises what the first item
\* that int() refuses raises
first_refused(items) ==
    IF \A k \in DOMAIN items : int(items[k]).raises = "" THEN ""
    ELSE LET k == CHOOSE i \in DOMAIN items :
                    /\ int(items[i]).raises # ""
                    /\ \A j \in 1..(i - 1) : int(items[j]).raises = ""
         IN  int(items[k]).raises

\* lines 210-228: the response of a request that does not reach
\* queue_pending_selection (None when it does)
update_selection_rejects(body) ==
    IF body.kind = "malformed" THEN Some(json_response(400, "invalid_json", None))
    ELSE IF body.kind # "object" THEN Some(unhandled("AttributeError"))
    ELSE LET selection_raw == IF body.selection = None THEN JsonList(<<>>)
                              ELSE body.selection[1]
         IN  IF body.node_id = None \/ ~truthy(body.node_id[1])
             THEN Some(json_response(400, "missing_node_id", None))
             ELSE IF selection_raw.type # "list"
             THEN Some(json_response(400, "selection_must_be_list", None))
             ELSE IF first_refused(selection_raw.items) \in {"TypeError", "ValueError"}
             THEN Some(json_response(400, "selection_contains_non_int", None))
             ELSE IF first_refused(selection_raw.items) # ""
             THEN Some(unhandled(first_refused(selection_raw.items)))
             ELSE None

\* the handler of POST /contact-sheet-selector/selection
update_selection(body) ==
    LET rejected == update_selection_rejects(body)
    IN  IF rejected # None
        THEN /\ last' = Call("update_selection", "", body, rejected[1], None)
             /\ UNCHANGED <<_selection_state, queued>>
             /\ NoThread
        ELSE LET node_id == body.node_id[1].str
                 items == IF body.selection = None THEN <<>> ELSE body.selection[1].items
                 selection == [k \in DOMAIN items |-> int(items[k]).int]
                 state == setdefault(_selection_state, node_id)
                 sanitized == _sanitize_selection(selection,
                                  effective_batch_size(state, selection))
                 stored == [state EXCEPT !.pending = queue_pending_value(selection, sanitized)]
             IN  /\ _selection_state' = [_selection_state EXCEPT ![node_id] = Some(stored)]
                 /\ last' = Call("update_selection", node_id, body,
                                 json_response(200, "", Some(sanitized)), None)
                 /\ queued' = [queued EXCEPT ![node_id] = Some(Elems(selection))]
                 /\ NoThread

\* the token and data pairs the store-level driver puts: the previews of the
\* batches of at most one frame
PreviewEntries ==
    {<<_compute_preview_signature(b), encode_previews(b)>> : b \in {c \in Batches : Len(c) <= 1}}

\* ------------------------------------------------------------------------
\* The store driven through its operations, each one atomic under _state_lock
\* ------------------------------------------------------------------------
Init ==
    /\ _selection_state = [n \in StoreNodes |-> None]
    /\ queued = [n \in StoreNodes |-> None]
    /\ _state_lock = None
    /\ last = NoCall
    /\ threads = <<>>
    /\ executed = [n \in StoreNodes |-> None]

Next ==
    \/ \E node_id \in StoreNodes, batch_size \in BatchSizes :
          get_state(node_id, batch_size)
    \/ \E node_id \in StoreNodes, batch_size \in BatchSizes :
          resolve_selection_for_execution(node_id, batch_size)
    \/ \E node_id \in StoreNodes, selection \in RawSelections :
          queue_pending_selection(node_id, selection)
    \/ \E node_id \in StoreNodes : inspect_state(node_id)
    \/ \E node_id \in StoreNodes : get_preview_cache(node_id)
    \/ \E node_id \in StoreNodes, entry \in PreviewEntries :
          update_preview_cache(node_id, entry[1], entry[2])
    \/ \E node_id \in StoreNodes, columns \in Columns :
          fingerprint_inputs(node_id, columns)
    \/ reset_state

Spec == Init /\ [][Next]_vars

\* ------------------------------------------------------------------------
\* Two nodes driven side by side: the states of "a" and "b" range over every
\* pair of states a node can be in
\* ------------------------------------------------------------------------
InitPair ==
    /\ _selection_state = [n \in PairNodes |-> None]
    /\ queued = [n \in PairNodes |-> None]
    /\ _state_lock = None
    /\ last = NoHistory
    /\ threads = <<>>
    /\ executed = [n \in PairNodes |-> None]

NextPair ==
    \/ \E node_id \in PairNodes, batch_size \in BatchSizes :
          get_state(node_id, batch_size)
    \/ \E node_id \in PairNodes, batch_size \in BatchSizes :
          resolve_selection_for_execution(node_id, batch_size)
    \/ \E node_id \in PairNodes, selection \in ShortSelections :
          queue_pending_selection(node_id, selection)

SpecPair == InitPair /\ [][NextPair]_vars

\* ------------------------------------------------------------------------
\* The node: the engine's thread runs execute, the HTTP handler's thread
\* queues selections in between
\* ------------------------------------------------------------------------
ExecThreads == {"engine"}

\* the batches the engine passes: every batch of good frames, and for each size
\* the batch whose frames cannot be encoded
UnencodableBatches == {[k \in 1..n |-> BadPixel] : n \in 1..MaxBatch}
ExecBatches == Batches \cup UnencodableBatches

InitExec ==
    /\ _selection_state = [n \in StoreNodes |-> None]
    /\ queued = [n \in StoreNodes |-> None]
    /\ _state_lock = None
    /\ last = NoHistory
    /\ threads = [t \in ExecThreads |-> IdleThread]
    /\ executed = [n \in StoreNodes |-> None]

NextExec ==
    \/ \E t \in ExecThreads, node_id \in StoreNodes, images \in ExecBatches :
          execute_resolve(t, node_id, images)
    \/ \E t \in ExecThreads, columns \in Columns : execute_lookup(t, columns)
    \/ \E t \in ExecThreads : execute_encode(t)
    \/ \E t \in ExecThreads, columns \in Columns : execute_encode_fails(t, columns)
    \/ \E t \in ExecThreads, columns \in Columns : execute_store(t, columns)
    \/ \E node_id \in StoreNodes, selection \in LockSelections :
          queue_pending_selection(node_id, selection)

SpecExec == InitExec /\ [][NextExec]_vars

\* ------------------------------------------------------------------------
\* Two threads run execute on the same node at the same time, with
\* update_preview_cache taken statement by statement
\* ------------------------------------------------------------------------
CacheThreads == {"engine", "worker"}
CacheBatches == {<<>>, <<0>>, [k \in 1..MaxBatch |-> k % 2], <<BadPixel>>}
CacheColumns == {2}

InitCache ==
    /\ _selection_state = [n \in StoreNodes |-> None]
    /\ queued = [n \in StoreNodes |-> None]
    /\ _state_lock = None
    /\ last = NoHistory
    /\ threads = [t \in CacheThreads |-> IdleThread]
    /\ executed = [n \in StoreNodes |-> None]

NextCache ==
    \/ \E t \in CacheThreads, node_id \in StoreNodes, images \in CacheBatches :
          execute_resolve(t, node_id, images)
    \/ \E t \in CacheThreads, columns \in CacheColumns : execute_lookup(t, columns)
    \/ \E t \in CacheThreads : execute_encode(t)
    \/ \E t \in CacheThreads, columns \in CacheColumns : execute_encode_fails(t, columns)
    \/ \E t \in CacheThreads : cache_acquire(t)
    \/ \E t \in CacheThreads : cache_write_token(t)
    \/ \E t \in CacheThreads, columns \in CacheColumns : cache_write_data(t, columns)

SpecCache == InitCache /\ [][NextCache]_vars

\* ------------------------------------------------------------------------
\* The HTTP endpoint: the UI posts bodies, the engine resolves in between
\* ------------------------------------------------------------------------
JsonItems ==
    {JsonInt(v) : v \in Idx} \cup
    {JsonFloat(1), JsonDigits(1), JsonStr("x"), JsonNull, JsonInf, JsonList(<<>>)}
JsonSelections ==
    {JsonList(items) : items \in SeqsUpTo(JsonItems, 1)} \cup
    {JsonList(<<JsonInt(1), JsonInt(0)>>), JsonList(<<JsonInt(0), JsonStr("x")>>),
     JsonList(<<JsonStr("x"), JsonInf>>), JsonList(<<JsonInf, JsonNull>>),
     JsonStr("0"), JsonInt(0), JsonNull}
JsonNodeIds == {None, Some(JsonNull), Some(JsonStr("")), Some(JsonStr("a"))}
Bodies ==
    {Malformed, NotObject} \cup
    {Object(node_id, selection) :
        node_id \in JsonNodeIds, selection \in {None} \cup {Some(v) : v \in JsonSelections}}

InitHttp ==
    /\ _selection_state = [n \in StoreNodes |-> None]
    /\ queued = [n \in StoreNodes |-> None]
    /\ _state_lock = None
    /\ last = NoCall
    /\ threads = <<>>
    /\ executed = [n \in StoreNodes |-> None]

NextHttp ==
    \/ \E body \in Bodies : update_selection(body)
    \/ \E node_id \in StoreNodes, batch_size \in BatchSizes :
          resolve_selection_for_execution(node_id, batch_size)

SpecHttp == InitHttp /\ [][NextHttp]_vars

\* ------------------------------------------------------------------------
\* The UI queues a selection and the engine takes the fingerprint, twice in a
\* row with the same columns; or, after the first round, the engine resolves
\* the node and takes the fingerprint again. The engine runs the node before
\* and after.
\* The "ui" thread keeps what the queue_pending_selection calls returned, the
\* two fingerprints, and for the resolution in between its batch size and the
\* last_batch_size and pending it found.
\* ------------------------------------------------------------------------
UiIdle == [columns |-> 0, returned |-> <<>>, fingerprints |-> <<>>, resolved |-> None]
UiSelections == ShortSelections \cup {<<0, 1>>}

ui_queue_pending(node_id, selection) ==
    LET ui == threads["ui"]
        state == setdefault(_selection_state, node_id)
        sanitized == _sanitize_selection(selection, effective_batch_size(state, selection))
        stored == [state EXCEPT !.pending = queue_pending_value(selection, sanitized)]
    IN  /\ Len(ui.returned) = Len(ui.fingerprints) /\ Len(ui.returned) < 2
        /\ ui.resolved = None
        /\ _selection_state' = [_selection_state EXCEPT ![node_id] = Some(stored)]
        /\ threads' = [threads EXCEPT !["ui"].returned = Append(@, sanitized)]
        /\ UNCHANGED <<_state_lock, queued, last, executed>>

ui_fingerprint_inputs(node_id, columns) ==
    LET ui == threads["ui"]
    IN  /\ \/ Len(ui.fingerprints) < Len(ui.returned)
           \/ ui.resolved # None /\ Len(ui.fingerprints) = 1
        /\ ui.fingerprints # <<>> => columns = ui.columns
        /\ threads' = [threads EXCEPT
              !["ui"].columns = columns,
              !["ui"].fingerprints = Append(@,
                  fingerprint(inspect_snapshot(_selection_state, node_id), columns))]
        /\ _selection_state' = table_after_get(_selection_state, node_id)
        /\ UNCHANGED <<_state_lock, queued, last, executed>>

ui_resolve(node_id, batch_size) ==
    LET state == setdefault(_selection_state, node_id)
        output == selection_for_output(state, batch_size)
    IN  /\ Len(threads["ui"].fingerprints) \in {0, 2}
        /\ Len(threads["ui"].returned) = 1 => threads["ui"].resolved # None
        /\ _selection_state' = [_selection_state EXCEPT
              ![node_id] = Some(resolve_commit(state, output, batch_size))]
        /\ threads' = [threads EXCEPT !["ui"] = UiIdle]
        /\ UNCHANGED <<_state_lock, queued, last, executed>>

\* the resolution between the two fingerprints
ui_resolve_queued(node_id, batch_size) ==
    LET ui == threads["ui"]
        state == setdefault(_selection_state, node_id)
        output == selection_for_output(state, batch_size)
    IN  /\ Len(ui.returned) = 1 /\ Len(ui.fingerprints) = 1 /\ ui.resolved = None
        /\ _selection_state' = [_selection_state EXCEPT
              ![node_id] = Some(resolve_commit(state, output, batch_size))]
        /\ threads' = [threads EXCEPT !["ui"].resolved =
              Some([batch_size |-> batch_size, last_batch_size |-> state.last_batch_size,
                    pending |-> state.pending])]
        /\ UNCHANGED <<_state_lock, queued, last, executed>>

InitUi ==
    /\ _selection_state = [n \in StoreNodes |-> None]
    /\ queued = [n \in StoreNodes |-> None]
    /\ _state_lock = None
    /\ last = NoHistory
    /\ threads = [t \in {"ui"} |-> UiIdle]
    /\ executed = [n \in StoreNodes |-> None]

NextUi ==
    \/ \E node_id \in StoreNodes, selection \in UiSelections :
          ui_queue_pending(node_id, selection)
    \/ \E node_id \in StoreNodes, columns \in Columns :
          ui_fingerprint_inputs(node_id, columns)
    \/ \E node_id \in StoreNodes, batch_size \in BatchSizes :
          ui_resolve(node_id, batch_size)
    \/ \E node_id \in StoreNodes, batch_size \in BatchSizes :
          ui_resolve_queued(node_id, batch_size)

SpecUi == InitUi /\ [][NextUi]_vars

\* ------------------------------------------------------------------------
\* A caller that keeps what the store operations return and mutates it.
\* What it holds: "state", the NodeSelectionState object of the table;
\* "active" and "pending", the list objects that are state.active and
\* state.pending at this moment; "copy", a value built for the caller.
\* ------------------------------------------------------------------------
Held == threads["caller"].held
Hold(handles) == [threads EXCEPT !["caller"].held = handles]

\* line 58: "return state" hands out the table's own object; line 56 has
\* replaced the list object of state.active
caller_get_state(node_id, batch_size) ==
    LET state == get_state_result(setdefault(_selection_state, node_id), batch_size)
    IN  /\ _selection_state' = [_selection_state EXCEPT ![node_id] = Some(state)]
        /\ last' = Call("get_state", node_id, batch_size, state, None)
        /\ threads' = Hold((Held \ {"active"}) \cup {"state"})
        /\ UNCHANGED <<queued, executed>>
        /\ UNCHANGED _state_lock

\* lines 92-105: selection_for_output is the list stored as state.active and
\* is returned itself, next to a copy; the pending list is dropped
caller_resolve(node_id, batch_size) ==
    LET state == setdefault(_selection_state, node_id)
        output == selection_for_output(state, batch_size)
        committed == resolve_commit(state, output, batch_size)
    IN  /\ _selection_state' = [_selection_state EXCEPT ![node_id] = Some(committed)]
        /\ last' = Call("resolve", node_id, batch_size, <<output, committed.active>>,
                        queued[node_id])
        /\ queued' = [queued EXCEPT ![node_id] = None]
        /\ threads' = Hold((Held \ {"pending"}) \cup {"active", "copy"})
        /\ UNCHANGED executed
        /\ UNCHANGED _state_lock

\* lines 143-144: sanitized is stored as state.pending and returned itself; in
\* the other two branches the returned list is not the stored one
caller_queue_pending(node_id, selection) ==
    LET state == setdefault(_selection_state, node_id)
        sanitized == _sanitize_selection(selection, effective_batch_size(state, selection))
        pending == queue_pending_value(selection, sanitized)
        stored == [state EXCEPT !.pending = pending]
    IN  /\ _selection_state' = [_selection_state EXCEPT ![node_id] = Some(stored)]
        /\ last' = Call("queue_pending", node_id, Elems(selection), sanitized, None)
        /\ queued' = [queued EXCEPT ![node_id] = Some(Elems(selection))]
        /\ threads' = Hold(IF pending # None /\ pending[1] # <<>>
                           THEN Held \cup {"pending"}
                           ELSE (Held \ {"pending"}) \cup {"copy"})
        /\ UNCHANGED executed
        /\ UNCHANGED _state_lock

\* lines 153-159: a new NodeSelectionState built from copies
caller_inspect(node_id) ==
    /\ last' = Call("inspect", node_id, None, inspect_snapshot(_selection_state, node_id), None)
    /\ threads' = Hold(Held \cup {"copy"})
    /\ UNCHANGED <<_selection_state, queued, executed>>
    /\ UNCHANGED _state_lock

\* lines 175-178: copies of the token and of the data
caller_get_preview_cache(node_id) ==
    /\ last' = Call("get_preview_cache", node_id, None,
                    get_preview_cache_result(_selection_state, node_id), None)
    /\ threads' = Hold(Held \cup {"copy"})
    /\ UNCHANGED <<_selection_state, queued, executed>>
    /\ UNCHANGED _state_lock

\* list.append(v) and list.clear() on a list of at most MaxLen items
Mutations == {<<"append", v>> : v \in {0, MaxBatch}} \cup {<<"clear", 0>>}
Mutate(list, mutation) ==
    IF mutation[1] = "append" THEN Append(list, mutation[2]) ELSE <<>>

\* the caller mutates in place what it holds: the list it was handed, or
\* the active list reached through the state object it was handed
caller_mutates(node_id, handle, mutation) ==
    /\ handle \in Held
    /\ _selection_state[node_id] # None
    /\ LET state == _selection_state[node_id][1]
           target == IF handle = "pending" THEN state.pending[1] ELSE state.active
       IN  /\ mutation[1] = "append" => Len(target) < MaxLen
           /\ _selection_state' = [_selection_state EXCEPT ![node_id] = Some(
                 CASE handle = "copy" -> state
                   [] handle = "pending" ->
                        [state EXCEPT !.pending = Some(Mutate(target, mutation))]
                   [] OTHER -> [state EXCEPT !.active = Mutate(target, mutation)])]
    /\ last' = Call("mutate", node_id, <<handle, mutation>>, None, None)
    /\ UNCHANGED <<queued, threads, executed>>
    /\ UNCHANGED _state_lock

InitAlias ==
    /\ _selection_state = [n \in StoreNodes |-> None]
    /\ queued = [n \in StoreNodes |-> None]
    /\ _state_lock = None
    /\ last = NoCall
    /\ threads = [t \in {"caller"} |-> [held |-> {}]]
    /\ executed = [n \in StoreNodes |-> None]

NextAlias ==
    \/ \E node_id \in StoreNodes, batch_size \in BatchSizes :
          caller_get_state(node_id, batch_size)
    \/ \E node_id \in StoreNodes, batch_size \in BatchSizes :
          caller_resolve(node_id, batch_size)
    \/ \E node_id \in StoreNodes, selection \in ShortSelections :
          caller_queue_pending(node_id, selection)
    \/ \E node_id \in StoreNodes : caller_inspect(node_id)
    \/ \E node_id \in StoreNodes : caller_get_preview_cache(node_id)
    \/ \E node_id \in StoreNodes, handle \in {"state", "active", "pending", "copy"},
          mutation \in Mutations :
          caller_mutates(node_id, handle, mutation)

SpecAlias == InitAlias /\ [][NextAlias]_vars

\* ------------------------------------------------------------------------
\* The lock: threads inside resolve_selection_for_execution and
\* queue_pending_selection, one step per group of statements of the "with
\* _state_lock" block
\* ------------------------------------------------------------------------
LockThreads == {"engine", "http"}

\* A thread and its call: the operation and its arguments, the locals, and as
\* history the table entry found when the lock was taken; once the call has
\* returned, the operation and its return value only.
LockThread ==
    [pc |-> "idle", op |-> "", node_id |-> "", batch_size |-> 0, selection |-> <<>>,
     output |-> <<>>, sanitized |-> <<>>, ret |-> <<>>, seen |-> None]

\* the call is made; the thread waits for the lock
call_resolve(t, node_id, batch_size) ==
    /\ threads[t].pc \in {"idle", "done"}
    /\ threads' = [threads EXCEPT ![t] = [LockThread EXCEPT !.pc = "wait",
          !.op = "resolve", !.node_id = node_id, !.batch_size = batch_size]]
    /\ UNCHANGED <<_selection_state, _state_lock, queued, last, executed>>

call_queue_pending(t, node_id, selection) ==
    /\ threads[t].pc \in {"idle", "done"}
    /\ threads' = [threads EXCEPT ![t] = [LockThread EXCEPT !.pc = "wait",
          !.op = "queue_pending", !.node_id = node_id, !.selection = selection]]
    /\ UNCHANGED <<_selection_state, _state_lock, queued, last, executed>>

\* lines 67 and 114: "with _state_lock"
lock_acquire(t) ==
    /\ threads[t].pc = "wait"
    /\ can_acquire(_state_lock)
    /\ _state_lock' = Some(t)
    /\ threads' = [threads EXCEPT
          ![t].pc = IF threads[t].op = "resolve" THEN "line 68" ELSE "line 115",
          ![t].seen = _selection_state[threads[t].node_id]]
    /\ UNCHANGED <<_selection_state, queued, last, executed>>

Entry(t) == _selection_state[threads[t].node_id][1]
SetEntry(t, state) == [_selection_state EXCEPT ![threads[t].node_id] = Some(state)]

\* lines 68-73: the entry is fetched or created and an empty active is seeded
resolve_load(t) ==
    /\ threads[t].pc = "line 68"
    /\ LET state == setdefault(_selection_state, threads[t].node_id)
       IN  _selection_state' = SetEntry(t,
               IF state.active = <<>>
               THEN [state EXCEPT !.active = range(threads[t].batch_size)]
               ELSE state)
    /\ threads' = [threads EXCEPT ![t].pc = "line 75"]
    /\ UNCHANGED <<_state_lock, queued, last, executed>>

\* lines 75-92: active and pending are read and the output is chosen
resolve_read(t) ==
    /\ threads[t].pc = "line 75"
    /\ LET batch_size == threads[t].batch_size
           active == OrElse(_sanitize_selection(Entry(t).active, batch_size),
                            range(batch_size))
           pending == resolve_pending(Entry(t).pending, batch_size)
       IN  threads' = [threads EXCEPT ![t].pc = "line 93",
               ![t].output = IF pending # None THEN pending[1] ELSE active]
    /\ UNCHANGED <<_selection_state, _state_lock, queued, last, executed>>

\* line 93: state.active = selection_for_output
resolve_write_active(t) ==
    /\ threads[t].pc = "line 93"
    /\ _selection_state' = SetEntry(t, [Entry(t) EXCEPT !.active = threads[t].output])
    /\ threads' = [threads EXCEPT ![t].pc = "line 94"]
    /\ UNCHANGED <<_state_lock, queued, last, executed>>

\* line 94: state.pending = None
resolve_write_pending(t) ==
    /\ threads[t].pc = "line 94"
    /\ _selection_state' = SetEntry(t, [Entry(t) EXCEPT !.pending = None])
    /\ threads' = [threads EXCEPT ![t].pc = "line 95"]
    /\ UNCHANGED <<_state_lock, queued, last, executed>>

\* line 95: state.last_batch_size = batch_size
resolve_write_size(t) ==
    /\ threads[t].pc = "line 95"
    /\ _selection_state' = SetEntry(t,
          [Entry(t) EXCEPT !.last_batch_size = threads[t].batch_size])
    /\ threads' = [threads EXCEPT ![t].pc = "line 105"]
    /\ UNCHANGED <<_state_lock, queued, last, executed>>

\* line 105: the return value is built, reading state.active again, and the
\* lock is released
resolve_return(t) ==
    /\ threads[t].pc = "line 105"
    /\ threads' = [threads EXCEPT ![t] = [LockThread EXCEPT !.pc = "done",
          !.op = "resolve", !.ret = <<threads[t].output, Entry(t).active>>]]
    /\ _state_lock' = None
    /\ UNCHANGED <<_selection_state, queued, last, executed>>

\* lines 115-121: the entry is fetched or created, last_batch_size is read and
\* the selection is sanitized
queue_read(t) ==
    /\ threads[t].pc = "line 115"
    /\ LET state == setdefault(_selection_state, threads[t].node_id)
       IN  /\ _selection_state' = SetEntry(t, state)
           /\ threads' = [threads EXCEPT ![t].pc = "line 123",
                 ![t].sanitized = _sanitize_selection(threads[t].selection,
                     effective_batch_size(state, threads[t].selection))]
    /\ UNCHANGED <<_state_lock, queued, last, executed>>

\* lines 123-143: state.pending is written
queue_write(t) ==
    /\ threads[t].pc = "line 123"
    /\ _selection_state' = SetEntry(t, [Entry(t) EXCEPT
          !.pending = queue_pending_value(threads[t].selection, threads[t].sanitized)])
    /\ threads' = [threads EXCEPT ![t].pc = "line 144"]
    /\ UNCHANGED <<_state_lock, queued, last, executed>>

\* line 144: sanitized is returned and the lock is released
queue_return(t) ==
    /\ threads[t].pc = "line 144"
    /\ threads' = [threads EXCEPT ![t] = [LockThread EXCEPT !.pc = "done",
          !.op = "queue_pending", !.ret = threads[t].sanitized]]
    /\ _state_lock' = None
    /\ UNCHANGED <<_selection_state, queued, last, executed>>

InitLock ==
    /\ _selection_state = [n \in StoreNodes |-> None]
    /\ _state_lock = None
    /\ queued = [n \in StoreNodes |-> None]
    /\ last = NoHistory
    /\ threads = [t \in LockThreads |-> LockThread]
    /\ executed = [n \in StoreNodes |-> None]

NextLock ==
    \/ \E t \in LockThreads, node_id \in StoreNodes, batch_size \in BatchSizes :
          call_resolve(t, node_id, batch_size)
    \/ \E t \in LockThreads, node_id \in StoreNodes, selection \in LockSelections :
          call_queue_pending(t, node_id, selection)
    \/ \E t \in LockThreads : lock_acquire(t)
    \/ \E t \in LockThreads : resolve_load(t)
    \/ \E t \in LockThreads : resolve_read(t)
    \/ \E t \in LockThreads : resolve_write_active(t)
    \/ \E t \in LockThreads : resolve_write_pending(t)
    \/ \E t \in LockThreads : resolve_write_size(t)
    \/ \E t \in LockThreads : resolve_return(t)
    \/ \E t \in LockThreads : queue_read(t)
    \/ \E t \in LockThreads : queue_write(t)
    \/ \E t \in LockThreads : queue_return(t)

SpecLock == InitLock /\ [][NextLock]_vars

\* ------------------------------------------------------------------------
\* The engine's thread runs execute on node "a", with get_preview_cache and
\* update_preview_cache taken statement by statement, while the HTTP
\* handler's thread calls queue_pending_selection or
\* resolve_selection_for_execution on either node
\* ------------------------------------------------------------------------
EncodeBatches == {<<0>>, <<BadPixel>>}
EncodeSizes == {MaxBatch}
EncodeSelections == {<<>>, <<0>>}

\* the threads inside a "with _state_lock" block
LockedLines ==
    {"line 68", "line 75", "line 93", "line 94", "line 95", "line 105",
     "line 115", "line 123", "line 144", "line 172", "line 184", "line 186"}

InitEncode ==
    /\ _selection_state = [n \in PairNodes |-> None]
    /\ queued = [n \in PairNodes |-> None]
    /\ _state_lock = None
    /\ last = NoHistory
    /\ threads = [t \in {"engine", "http"} |->
                    IF t = "engine" THEN IdleThread ELSE LockThread]
    /\ executed = [n \in PairNodes |-> None]

NextEncode ==
    \/ \E images \in EncodeBatches : execute_resolve("engine", "a", images)
    \/ lookup_acquire("engine")
    \/ \E columns \in CacheColumns : lookup_read("engine", columns)
    \/ execute_encode("engine")
    \/ \E columns \in CacheColumns : execute_encode_fails("engine", columns)
    \/ cache_acquire("engine")
    \/ cache_write_token("engine")
    \/ \E columns \in CacheColumns : cache_write_data("engine", columns)
    \/ \E node_id \in PairNodes, batch_size \in EncodeSizes :
          call_resolve("http", node_id, batch_size)
    \/ \E node_id \in PairNodes, selection \in EncodeSelections :
          call_queue_pending("http", node_id, selection)
    \/ lock_acquire("http")
    \/ resolve_load("http")
    \/ resolve_read("http")
    \/ resolve_write_active("http")
    \/ resolve_write_pending("http")
    \/ resolve_write_size("http")
    \/ resolve_return("http")
    \/ queue_read("http")
    \/ queue_write("http")
    \/ queue_return("http")

SpecEncode == InitEncode /\ [][NextEncode]_vars

\* ------------------------------------------------------------------------
\* Properties
\* ------------------------------------------------------------------------
IsAscending(list) == \A i, j \in DOMAIN list : i < j => list[i] < list[j]
InRange(S, n) == {v \in S : 0 <= v /\ v < n}
Exists(node_id) == node_id \in DOMAIN _selection_state /\ _selection_state[node_id] # None
State(node_id) == _selection_state[node_id][1]

\* C1: when the selection queued last has a value in [0, n), the resolution at
\* batch size n returns output = next = the ascending list of the distinct
\* queued values lying in [0, n), whatever active was.
C1_PendingPromoted ==
    (last.op = "resolve" /\ last.met # None /\ InRange(last.met[1], last.arg) # {})
    => /\ last.ret[1] = last.ret[2]
       /\ IsAscending(last.ret[1])
       /\ Elems(last.ret[1]) = InRange(last.met[1], last.arg)

\* a resolution at batch size 2 met the queued values {0, 2} and returned [0]
C1_Witness ==
    /\ last.op = "resolve" /\ last.arg = 2 /\ last.met = Some({0, 2})
    /\ last.ret = <<(<<0>>), (<<0>>)>>

StalePending(node_id, n) ==
    /\ Exists(node_id)
    /\ State(node_id).pending # None
    /\ State(node_id).pending[1] # <<>>
    /\ \A v \in Elems(State(node_id).pending[1]) : v >= n

\* C2: a resolution at n > 0 that finds a non-empty pending whose indices are
\* all >= n discards it and outputs the previous active selection restricted
\* to [0, n), or the full range when nothing of it is left; the output is not
\* empty.
C2_StaleFallsBack ==
    [][\A node_id \in DOMAIN _selection_state :
         (last'.op = "resolve" /\ last'.node = node_id /\ last'.arg > 0
            /\ StalePending(node_id, last'.arg))
         => LET n == last'.arg
                kept == InRange(Elems(State(node_id).active), n)
                out == last'.ret[1]
            IN  /\ out # <<>>
                /\ IsAscending(out)
                /\ Elems(out) = (IF kept # {} THEN kept ELSE 0..(n - 1))
                /\ _selection_state'[node_id][1].active = out
                /\ _selection_state'[node_id][1].pending = None]_vars

\* a resolution at batch size 1 met the queued index 2 and fell back to [0]
C2_Witness ==
    /\ last.op = "resolve" /\ last.arg = 1 /\ last.met = Some({2})
    /\ last.ret[1] = <<0>>

\* C3: after queue_pending(node, []) the next resolution returns the empty
\* selection as output and as next active.
C3_EmptyPendingHonoured ==
    (last.op = "resolve" /\ last.met = Some({})) => last.ret = <<(<<>>), (<<>>)>>

\* C4: in every state, a node whose last_batch_size is positive has a non-empty
\* active selection.
C4_ActiveNonEmpty ==
    \A node_id \in DOMAIN _selection_state :
        (Exists(node_id) /\ State(node_id).last_batch_size > 0)
        => State(node_id).active # <<>>

\* a resolution of a non-empty batch that met an explicitly empty pending
C4_Witness ==
    /\ last.op = "resolve" /\ last.arg > 0 /\ last.met = Some({})
    /\ State(last.node).last_batch_size > 0
    /\ State(last.node).active # <<>>

\* C9: pending is absent right after every resolution, and stays absent until
\* queue_pending_selection runs again for the node.
C9_PendingOneShot ==
    \A node_id \in DOMAIN _selection_state :
        Exists(node_id)
        => /\ (last.op = "resolve" /\ last.node = node_id) => State(node_id).pending = None
           /\ queued[node_id] = None => State(node_id).pending = None

\* a resolution that consumed the queued selection {1}
C9_Witness ==
    /\ last.op = "resolve" /\ last.arg = 2 /\ last.met = Some({1})
    /\ State(last.node).pending = None

\* C10: a resolution that directly follows a resolution of the same node at the
\* same batch size returns the same (output, next) pair and leaves the table
\* as it was.
C10_ResolveIdempotent ==
    [][(last'.op = "resolve" /\ last'.prev # None)
         => /\ last'.ret = last'.prev[1].ret
            /\ _selection_state' = _selection_state]_vars

\* the second of two resolutions at batch size 2, the first of which met the
\* partly out-of-range queued values {0, 2}
C10_Witness ==
    /\ last.op = "resolve" /\ last.arg = 2 /\ last.prev # None
    /\ last.prev[1].met = Some({0, 2})
    /\ last.ret[1] = <<0>>

\* the output the next resolution at the last known batch size would return
NextOutput(node_id) == selection_for_output(State(node_id), State(node_id).last_batch_size)
Fingerprint(node_id, columns) == fingerprint(inspect_snapshot(_selection_state, node_id), columns)

\* C5 as stated: for fixed columns, the fingerprints of two states differ if and
\* only if the next resolution at the last known batch size would return a
\* different output in the two states.
C5_FingerprintIffOutput ==
    \A x, y \in DOMAIN _selection_state, columns \in Columns :
        (Exists(x) /\ Exists(y))
        => ((Fingerprint(x, columns) # Fingerprint(y, columns))
              <=> (NextOutput(x) # NextOutput(y)))

\* no pending is queued, or the queued pending keeps an index at the last known
\* batch size
PendingUsable(node_id) ==
    \/ State(node_id).pending = None
    \/ InRange(Elems(State(node_id).pending[1]), State(node_id).last_batch_size) # {}

\* C5 as amended: for fixed columns, two states whose next outputs differ have
\* different fingerprints, provided that in neither state the queued pending
\* sanitizes to empty against the last known batch size.
C5_OutputChangeSeen ==
    \A x, y \in DOMAIN _selection_state, columns \in Columns :
        (Exists(x) /\ Exists(y) /\ PendingUsable(x) /\ PendingUsable(y)
           /\ NextOutput(x) # NextOutput(y))
        => Fingerprint(x, columns) # Fingerprint(y, columns)

\* two nodes with the same active selection and batch size, one of them with a
\* usable pending queued that changes its next output
C5_Witness ==
    /\ Exists("a") /\ Exists("b")
    /\ State("a").active = State("b").active
    /\ State("a").last_batch_size = 2 /\ State("b").last_batch_size = 2
    /\ State("a").pending = Some(<<1>>) /\ State("b").pending = None
    /\ NextOutput("a") # NextOutput("b")
    /\ Fingerprint("a", 0) # Fingerprint("b", 0)

\* C6: an execute that directly follows an execute of the same node with the
\* same batch, the first having stored a non-empty preview list, calls
\* _encode_tensor_to_data_url zero times.
C6_PreviewsReused ==
    \A t \in DOMAIN threads :
        (threads[t].pc = "done" /\ threads[t].repeat /\ threads[t].solo)
        => threads[t].encoded = 0

\* C7: whatever a store operation returned, mutating it leaves the table, and
\* so what every later store operation observes, as it was.
C7_NoMutableReference ==
    [][last'.op = "mutate" => _selection_state' = _selection_state]_vars

\* the entry a call found when it took the lock, created if there was none
Seen(t) == IF threads[t].seen = None THEN NodeSelectionState ELSE threads[t].seen[1]

\* C8: whatever the interleaving of the threads, a resolution returns, and
\* leaves in the table, what the active and pending selections found when it
\* took the lock determine, and a queue_pending_selection likewise: each call
\* takes effect as one step, none sees or leaves a partly updated entry.
C8_CallsAtomic ==
    [][\A t \in DOMAIN threads :
         /\ (threads[t].pc = "line 105" /\ threads'[t].pc = "done")
            => LET n == threads[t].batch_size
                   output == selection_for_output(Seen(t), n)
               IN  /\ threads'[t].ret = <<output, output>>
                   /\ _selection_state'[threads[t].node_id]
                        = Some(resolve_commit(Seen(t), output, n))
         /\ (threads[t].pc = "line 144" /\ threads'[t].pc = "done")
            => LET selection == threads[t].selection
                   sanitized == _sanitize_selection(selection,
                                    effective_batch_size(Seen(t), selection))
               IN  /\ threads'[t].ret = sanitized
                   /\ _selection_state'[threads[t].node_id]
                        = Some([Seen(t) EXCEPT
                              !.pending = queue_pending_value(selection, sanitized)])
      ]_vars

\* a resolution has returned the pending [1] it found when it took the lock,
\* while a queue_pending_selection call made by the other thread in the
\* meantime still waits for the lock
C8_Witness ==
    /\ threads["engine"].pc = "done" /\ threads["engine"].op = "resolve"
    /\ threads["engine"].ret = <<(<<1>>), (<<1>>)>>
    /\ threads["http"].pc = "wait" /\ threads["http"].op = "queue_pending"
    /\ threads["http"].selection = <<0>>
    /\ _state_lock = None
    /\ State("a").active = <<1>> /\ State("a").pending = None

\* C11: on a node without an entry in the table, resolve_selection_for_execution
\* at batch size N returns output = next = [0, ..., N-1], and get_state at batch
\* size N yields active = [0, ..., N-1] with pending absent.
C11_FreshFullRange ==
    last.fresh
    => LET full == [i \in 1..last.arg |-> i - 1]
       IN  /\ last.op = "resolve" => last.ret = <<full, full>>
           /\ last.op = "get_state" => (last.ret.active = full /\ last.ret.pending = None)

\* the first resolution of a node, at batch size 2, returned [0, 1] twice
C11_Witness ==
    /\ last.op = "resolve" /\ last.fresh /\ last.arg = 2
    /\ last.ret = <<(<<0, 1>>), (<<0, 1>>)>>

\* C12: in every state the store operations reach, the active selection of a
\* node is strictly ascending and its indices lie in [0, last_batch_size); a
\* resolution at n returns strictly ascending indices of [0, n) only, and when
\* it uses the queued selection every index it returns is one that was queued
\* (an index out of range is dropped, not clamped or wrapped).
C12_ActiveSortedInRange ==
    /\ \A node_id \in DOMAIN _selection_state :
          Exists(node_id)
          => /\ IsAscending(State(node_id).active)
             /\ \A v \in Elems(State(node_id).active) :
                   0 <= v /\ v < State(node_id).last_batch_size
    /\ last.op = "resolve"
       => /\ \A k \in {1, 2} :
                /\ IsAscending(last.ret[k])
                /\ \A v \in Elems(last.ret[k]) : 0 <= v /\ v < last.arg
          /\ (last.met # None /\ InRange(last.met[1], last.arg) # {})
             => Elems(last.ret[1]) \subseteq last.met[1]

\* a resolution at batch size 1 met the queued values {0, 2}: 2 is dropped
C12_Witness ==
    /\ last.op = "resolve" /\ last.arg = 1 /\ last.met = Some({0, 2})
    /\ State(last.node).active = <<0>> /\ State(last.node).last_batch_size = 1

\* C13: queue_pending_selection with a selection holding an index >=
\* last_batch_size keeps that index and every other non-negative index of the
\* selection, ascending, in the stored pending and in the returned value; a
\* following resolution at a batch size above every queued index outputs them
\* all.
C13_QueueExpandsEstimate ==
    /\ (last.op = "queue_pending"
          /\ \E v \in last.arg : v >= State(last.node).last_batch_size)
       => /\ Elems(last.ret) = {v \in last.arg : v >= 0}
          /\ IsAscending(last.ret)
          /\ State(last.node).pending = Some(last.ret)
    /\ (last.op = "resolve" /\ last.met # None
          /\ (\E v \in last.met[1] : v >= 0) /\ (\A v \in last.met[1] : v < last.arg))
       => Elems(last.ret[1]) = {v \in last.met[1] : v >= 0}

\* at last batch size 1, the selection [0, 1] or [1, 0] is queued: both indices
\* are kept
C13_Witness ==
    /\ last.op = "queue_pending" /\ last.arg = {0, 1} /\ last.ret = <<0, 1>>
    /\ State(last.node).last_batch_size = 1
    /\ State(last.node).pending = Some(<<0, 1>>)

ErrorCodes ==
    {"invalid_json", "missing_node_id", "selection_must_be_list", "selection_contains_non_int"}

\* C14: every POST to the selection endpoint is answered with 200 and the
\* sanitized selection or with 400 and one of the four error codes, and a
\* request not answered with 200 leaves the table as it was.
C14_EndpointOutcomes ==
    [][last'.op = "update_selection"
         => /\ \/ last'.ret.status = 200 /\ last'.ret.selection # None
               \/ last'.ret.status = 400 /\ last'.ret.error \in ErrorCodes
            /\ last'.ret.status # 200 => _selection_state' = _selection_state]_vars

\* C15: fingerprint_inputs and inspect_state leave the whole table as it was,
\* an absent entry staying absent, and a fingerprint_inputs call that directly
\* follows one for the same node with the same columns returns the same value.
C15_ReadsDoNotMutate ==
    [][last'.op \in {"inspect", "fingerprint_inputs"}
         => /\ _selection_state' = _selection_state
            /\ (last'.op = "fingerprint_inputs" /\ last'.prev # None)
               => last'.ret = last'.prev[1].ret]_vars

\* the second of two fingerprint_inputs calls on a node with a pending queued
C15_Witness ==
    /\ last.op = "fingerprint_inputs" /\ last.prev # None
    /\ Exists(last.node) /\ State(last.node).pending = Some(<<1>>)
    /\ last.ret = Some(<<1, State(last.node).last_batch_size, columns_value(last.arg)>>)

\* C16: with last_batch_size and columns fixed, when two
\* queue_pending_selection calls return different non-empty selections, the
\* fingerprint taken after the first differs from the one taken after the
\* second.
C16_PendingChangesFingerprint ==
    LET ui == threads["ui"]
    IN  (Len(ui.fingerprints) = 2 /\ Len(ui.returned) = 2
           /\ ui.returned[1] # <<>> /\ ui.returned[2] # <<>>
           /\ ui.returned[1] # ui.returned[2])
        => ui.fingerprints[1] # ui.fingerprints[2]

\* [0] then [1] were queued at last batch size 2; the fingerprints are
\* (0, 2, 0) and (1, 2, 0)
C16_Witness ==
    /\ threads["ui"].returned = <<(<<0>>), (<<1>>)>>
    /\ threads["ui"].fingerprints = <<Some(<<0, 2, 0>>), Some(<<1, 2, 0>>)>>

\* C17: queue_pending_selection with a non-empty selection that sanitizes to
\* empty leaves pending absent, not empty, and returns the empty list; with an
\* empty selection it leaves pending present and empty; in both cases active
\* and last_batch_size stay as they were.
C17_DiscardOrClear ==
    [][\A node_id \in DOMAIN _selection_state :
         (last'.op = "queue_pending" /\ last'.node = node_id)
         => LET before == setdefault(_selection_state, node_id)
                after == _selection_state'[node_id][1]
            IN  /\ (last'.arg # {} /\ last'.ret = <<>>)
                   => /\ after.pending = None
                      /\ after.active = before.active
                      /\ after.last_batch_size = before.last_batch_size
                /\ last'.arg = {}
                   => /\ after.pending = Some(<<>>)
                      /\ last'.ret = <<>>
                      /\ after.active = before.active
                      /\ after.last_batch_size = before.last_batch_size]_vars

\* at last batch size 2, the selection [-1] was queued and discarded
C17_Witness ==
    /\ last.op = "queue_pending" /\ last.arg = {-1} /\ last.ret = <<>>
    /\ State(last.node).pending = None
    /\ State(last.node).last_batch_size = 2 /\ State(last.node).active = <<0, 1>>

\* the cache holds nothing, or the signature and the encoded frames of one and
\* the same batch
SameBatch(state) ==
    \/ state.preview_token = None /\ state.preview_data = <<>>
    \/ \E images \in CacheBatches :
          /\ state.preview_token = Some(tuple(_compute_preview_signature(images)))
          /\ state.preview_data = encode_previews(images)
          /\ Len(state.preview_data) = Len(images)

\* C18: whenever the lock is free, also while executes of the same node
\* overlap, the preview token and the preview data of a node are those of one
\* batch, the data holding one item per frame of it: the two are replaced
\* together under the lock.
C18_CachePairConsistent ==
    _state_lock = None
    => \A node_id \in DOMAIN _selection_state :
          Exists(node_id) => SameBatch(State(node_id))

\* two overlapping executes of the node have stored the previews of [0] and of
\* [1, 0]; the cache holds those of [1, 0]
C18_Witness ==
    /\ threads["engine"].pc = "done" /\ threads["engine"].images = <<0>>
    /\ ~threads["engine"].solo /\ threads["engine"].preview_data # <<>>
    /\ threads["worker"].pc = "done" /\ threads["worker"].images = <<1, 0>>
    /\ ~threads["worker"].solo
    /\ _state_lock = None
    /\ State("a").preview_token = Some(tuple(_compute_preview_signature(<<1, 0>>)))
    /\ Len(State("a").preview_data) = 2

\* C19: an execute returns the frames of its batch at the resolved indices, in
\* ascending index order, and reports those indices as selected_active and
\* selected_next; the indices are the in-range ones of the pending selection
\* found when the call started, if it has any, whatever is queued while the
\* call runs.
C19_ExecuteEndToEnd ==
    \A t \in DOMAIN threads :
        threads[t].pc = "done"
        => LET images == threads[t].images
               indices == ui_payload(t).selected_active
               met == threads[t].met
           IN  /\ IsAscending(indices)
               /\ \A v \in Elems(indices) : 0 <= v /\ v < Len(images)
               /\ ui_payload(t).selected_next = indices
               /\ Len(selected_images(t)) = Len(indices)
               /\ \A k \in DOMAIN indices : selected_images(t)[k] = images[indices[k] + 1]
               /\ (met # None /\ InRange(Elems(met[1]), Len(images)) # {})
                  => Elems(indices) = InRange(Elems(met[1]), Len(images))
               /\ (met = None /\ Len(images) > 0) => indices # <<>>

\* an execute of the batch [1, 0] that found the pending [1] has returned the
\* frame 0 alone, while [0] was queued for the next run
C19_Witness ==
    /\ threads["engine"].pc = "done" /\ threads["engine"].images = <<1, 0>>
    /\ threads["engine"].met = Some(<<1>>)
    /\ selected_images("engine") = <<0>>
    /\ ui_payload("engine").selected_active = <<1>>
    /\ ui_payload("engine").selected_next = <<1>>
    /\ State("a").pending = Some(<<0>>)

\* C20: an execute that directly follows an execute of the same node with the
\* same batch, whose previews were stored, reports an empty images list in its
\* UI payload, next to the selections, the columns and the batch size.
C20_ReusePayloadEmpty ==
    \A t \in DOMAIN threads :
        (threads[t].pc = "done" /\ threads[t].repeat /\ threads[t].solo)
        => /\ ui_payload(t).images = <<>>
           /\ ui_payload(t).selected_active = threads[t].output
           /\ ui_payload(t).selected_next = threads[t].next
           /\ ui_payload(t).columns >= 0
           /\ ui_payload(t).batch_size = Len(threads[t].images)

\* C21: an execute whose batch has a frame that cannot be encoded still
\* returns: the frames at the resolved indices are its output, the resolved
\* selection stays committed in the table, the images list of the UI payload
\* is empty, and the preview token and data of the node are those it had
\* before the call.
C21_EncodeFailureDegrades ==
    \A t \in DOMAIN threads :
        (threads[t].pc = "done"
           /\ \E k \in DOMAIN threads[t].images : ~Encodable(threads[t].images[k]))
        => LET state == State(threads[t].node_id)
               indices == threads[t].output
           IN  /\ ui_payload(t).images = <<>>
               /\ Len(selected_images(t)) = Len(indices)
               /\ \A k \in DOMAIN indices :
                     selected_images(t)[k] = threads[t].images[indices[k] + 1]
               /\ state.active = indices
               /\ state.last_batch_size = Len(threads[t].images)
               /\ <<state.preview_token, state.preview_data>> = threads[t].cache_before

\* the previews of [0] are cached; an execute of a batch of two frames that
\* cannot be encoded, with the pending [1] queued, has returned the second frame
C21_Witness ==
    /\ threads["engine"].pc = "done"
    /\ threads["engine"].images = <<BadPixel, BadPixel>>
    /\ threads["engine"].met = Some(<<1>>)
    /\ selected_images("engine") = <<BadPixel>>
    /\ ui_payload("engine").images = <<>>
    /\ State("a").active = <<1>>
    /\ State("a").preview_token = Some(tuple(_compute_preview_signature(<<0>>)))
    /\ State("a").preview_data = encode_previews(<<0>>)

\* C22: a thread that is encoding frames in execute does not hold the lock,
\* and the lock is then free unless another thread is inside a store
\* operation, so a queue_pending_selection or
\* resolve_selection_for_execution call on any node can take it.
C22_EncodingOutsideLock ==
    \A t \in DOMAIN threads :
        threads[t].pc = "encode"
        => /\ _state_lock # Some(t)
           /\ (\A u \in DOMAIN threads \ {t} : threads[u].pc \notin LockedLines)
              => can_acquire(_state_lock)

\* while the engine's thread is encoding the frames of node "a", the HTTP
\* handler's thread holds the lock inside queue_pending_selection for node "b"
C22_Witness ==
    /\ threads["engine"].pc = "encode"
    /\ threads["http"].pc = "line 123" /\ threads["http"].node_id = "b"
    /\ _state_lock = Some("http")

\* C23: for a node with an entry, when the pending is present, non-empty and
\* all its indices are below last_batch_size, the fingerprint taken before a
\* resolution at last_batch_size equals the one taken after it with the same
\* columns; and the fingerprint differs across a resolution only when the
\* batch size differs from last_batch_size or the pending was dropped (empty,
\* or wholly out of range) or pruned (partly out of range).
C23_ConsumedPendingKeepsFingerprint ==
    LET ui == threads["ui"]
    IN  (ui.resolved # None /\ Len(ui.fingerprints) = 2)
        => LET r == ui.resolved[1]
               inrange == /\ r.pending # None
                          /\ r.pending[1] # <<>>
                          /\ \A v \in Elems(r.pending[1]) : v < r.last_batch_size
               kept == \/ r.pending = None
                       \/ /\ r.pending[1] # <<>>
                          /\ \A v \in Elems(r.pending[1]) : v < r.batch_size
           IN  /\ (inrange /\ r.batch_size = r.last_batch_size)
                  => ui.fingerprints[1] = ui.fingerprints[2]
               /\ ui.fingerprints[1] # ui.fingerprints[2]
                  => (r.batch_size # r.last_batch_size \/ ~kept)

\* at last batch size 2 with [1] pending, the fingerprint is (1, 2, 0) before
\* and after the resolution at batch size 2
C23_Witness ==
    /\ threads["ui"].resolved =
          Some([batch_size |-> 2, last_batch_size |-> 2, pending |-> Some(<<1>>)])
    /\ threads["ui"].fingerprints = <<Some(<<1, 2, 0>>), Some(<<1, 2, 0>>)>>
    /\ State("a").pending = None /\ State("a").active = <<1>>

=============================================================================
